---- MODULE Spec2Model ----
(***************************************************************************)
(* Conversation context manager of the browser chat application            *)
(* (public/memory.js, bundled at the end of src/public/app.js) and the     *)
(* application handlers that drive it (src/public/app.js).                 *)
(*                                                                         *)
(* Spec        a caller driving one context manager: it builds a message   *)
(*             list, then calls setModel / clearSummary / prepare while    *)
(*             the summarize capability resolves or rejects.               *)
(* SpecRepeat  the same caller calling prepare repeatedly on one list.     *)
(* SpecQuery   the same caller calling the status queries and prepare.     *)
(* SpecPure    the exported functions applied to bounded inputs.           *)
(* SpecApp     the application: sendMessage, loadChat, createNewChat and   *)
(*             the message subscription, interleaved at their awaits.      *)
(* SpecSend    the application in one chat: sendMessage, switchModel and   *)
(*             the subscription (SpecSendLive adds fairness).              *)
(* SpecRate    the application in one chat with the rate limiter's clock.  *)
(* SpecAdd     db.js addMessage called by callers that overlap.            *)
(***************************************************************************)
EXTENDS Integers, Sequences, FiniteSets, TLC

VARIABLES
    messages,             \* app.js:73    the caller's ordered message list
    mgrModelId,           \* app.js:1266  createContextManager: currentModelId
    conversationSummary,  \* app.js:1267  createContextManager: conversationSummary
    requestedModel,       \* the id last handed to createContextManager / setModel
    call,                 \* the prepare call in flight or last returned
    ret,                  \* what the last prepare call returned
    engine,               \* app.js:70   the loaded engine's model id, or NoEngine
    currentModelId,       \* app.js:71
    currentChatId,        \* app.js:72
    isGenerating,         \* app.js:74
    unsubscribeMessages,  \* app.js:76   the chat the message subscription is on
    lastMessageTime,      \* app.js:53   rateLimiter.lastMessageTime
    now,                  \* the clock Date.now() reads
    store,                \* Firestore: the messages persisted under each chat
    send,                 \* the sendMessage invocation: its position and locals
    loads,                \* loadChat / createNewChat invocations at their await
    initPc,               \* app.js:135  where init() stands
    switches,             \* app.js:233  switchModel invocations at their await
    applied               \* the calls a caller makes of an exported function: input, output, progress

mgrVars == <<mgrModelId, conversationSummary, requestedModel>>

appVars == <<engine, currentModelId, currentChatId, isGenerating, unsubscribeMessages,
             lastMessageTime, now, store, send, loads, initPc, switches>>

vars == <<messages, mgrModelId, conversationSummary, requestedModel, call, ret,
          engine, currentModelId, currentChatId, isGenerating, unsubscribeMessages,
          lastMessageTime, now, store, send, loads, initPc, switches, applied>>

-----------------------------------------------------------------------------
(* Bounds of the model *)

\* longest message list the caller builds
MaxLen == 7

-----------------------------------------------------------------------------
(* JavaScript values.  A text is a sequence of segments; a segment stands   *)
(* for a run of n characters named s.  "" is the text with no segment.      *)

Seg(s, n) == [s |-> s, n |-> n]

Str(segs) == [kind |-> "string", segs |-> segs]

Null == [kind |-> "null", segs |-> <<>>]

Undefined == [kind |-> "undefined", segs |-> <<>>]

EmptyString == Str(<<>>)

RECURSIVE SegsLen(_)
SegsLen(segs) == IF segs = <<>> THEN 0 ELSE Head(segs).n + SegsLen(Tail(segs))

\* text.length
Length(text) == SegsLen(text.segs)

\* !v for the values a content or a summary can be
Falsy(v) == v.kind # "string" \/ Length(v) = 0

\* `${v}`: a string renders as itself, null and undefined by their names
Render(v) ==
    CASE v.kind = "string"    -> v.segs
      [] v.kind = "null"      -> <<Seg("null", 4)>>
      [] v.kind = "undefined" -> <<Seg("undefined", 9)>>

\* a number, or the NaN that arithmetic on a non-number yields
Num(n) == [nan |-> FALSE, n |-> n]

NotANumber == [nan |-> TRUE, n |-> 0]

\* a <= b on numbers: false when either side is NaN
LeqJS(a, b) == ~a.nan /\ ~b.nan /\ a.n <= b.n

\* a > b on numbers: false when either side is NaN
GtJS(a, b) == ~a.nan /\ ~b.nan /\ a.n > b.n

-----------------------------------------------------------------------------
(* memory.js: configuration *)

MODEL_CONTEXT_LIMITS ==
    [id \in { "Qwen3-0.6B-q4f16_1-MLC", "Llama-3.2-1B-Instruct-q4f16_1-MLC",
              "SmolLM2-1.7B-Instruct-q4f16_1-MLC", "gemma-2-2b-it-q4f16_1-MLC",
              "Llama-3.2-3B-Instruct-q4f16_1-MLC", "Phi-3.5-mini-instruct-q4f16_1-MLC" }
       |-> IF id \in { "Llama-3.2-1B-Instruct-q4f16_1-MLC",
                       "Llama-3.2-3B-Instruct-q4f16_1-MLC",
                       "Phi-3.5-mini-instruct-q4f16_1-MLC" }
           THEN 8192 ELSE 4096]

\* MODEL_CONTEXT_LIMITS is an object literal: a lookup also finds what it
\* inherits from Object.prototype, and those values are not numbers
ObjectPrototypeKeys ==
    { "constructor", "toString", "valueOf", "hasOwnProperty", "__proto__" }

DEFAULT_LIMIT == 4096

MIN_RECENT_MESSAGES == 6

\* SUMMARIZE_THRESHOLD = 0.7, as the fraction ThresholdNum / ThresholdDen
ThresholdNum == 7

ThresholdDen == 10

MESSAGE_OVERHEAD == 4

\* MODEL_CONTEXT_LIMITS[modelId] || 4096
LookupLimit(modelId) ==
    IF modelId \in DOMAIN MODEL_CONTEXT_LIMITS THEN Num(MODEL_CONTEXT_LIMITS[modelId])
    ELSE IF modelId \in ObjectPrototypeKeys THEN NotANumber
    ELSE Num(DEFAULT_LIMIT)

-----------------------------------------------------------------------------
(* memory.js: token estimation *)

\* Math.floor for Math.ceil
estimateTokensFloor(text) ==
    IF Falsy(text) THEN 0 ELSE (2 * Length(text)) \div 7

\* Math.ceil(text.length / 3.5), 0 for a falsy text
estimateTokens(text) ==
    IF Falsy(text) THEN 0 ELSE (2 * Length(text) + 6) \div 7

\* the reduction started from the per-message overhead instead of 0
RECURSIVE ReduceTokensSeeded(_, _)
ReduceTokensSeeded(msgs, total) ==
    IF msgs = <<>> THEN total + MESSAGE_OVERHEAD
    ELSE ReduceTokensSeeded(Tail(msgs),
                            total + estimateTokens(Head(msgs).content) + MESSAGE_OVERHEAD)

RECURSIVE ReduceTokens(_, _)
ReduceTokens(msgs, total) ==
    IF msgs = <<>> THEN total
    ELSE ReduceTokens(Tail(msgs), total + estimateTokens(Head(msgs).content) + MESSAGE_OVERHEAD)

estimateMessagesTokens(msgs) == ReduceTokens(msgs, 0)

\* Math.floor(maxTokens * SUMMARIZE_THRESHOLD)
TargetTokens(maxTokens) ==
    IF maxTokens.nan THEN NotANumber
    ELSE Num((maxTokens.n * ThresholdNum) \div ThresholdDen)

\* the threshold factor left out: currentTokens > maxTokens
needsSummarizationAtLimit(msgs, modelId) ==
    LET maxTokens == LookupLimit(modelId)
        currentTokens == estimateMessagesTokens(msgs)
    IN  ~maxTokens.nan /\ currentTokens > maxTokens.n

\* currentTokens > maxTokens * SUMMARIZE_THRESHOLD
needsSummarization(msgs, modelId) ==
    LET maxTokens == LookupLimit(modelId)
        currentTokens == estimateMessagesTokens(msgs)
    IN  ~maxTokens.nan /\ currentTokens * ThresholdDen > maxTokens.n * ThresholdNum

\* Math.round((currentTokens / maxTokens) * 100): halves round up
Percentage(currentTokens, maxTokens) ==
    IF maxTokens.nan THEN NotANumber
    ELSE Num((2 * 100 * currentTokens + maxTokens.n) \div (2 * maxTokens.n))

getContextStatus(msgs, modelId) ==
    LET maxTokens == LookupLimit(modelId)
        currentTokens == estimateMessagesTokens(msgs)
        percentage == Percentage(currentTokens, maxTokens)
    IN  [ current            |-> currentTokens,
          max                |-> maxTokens,
          percentage         |-> percentage,
          needsSummarization |-> GtJS(percentage, Num((ThresholdNum * 100) \div ThresholdDen)),
          isNearLimit        |-> GtJS(percentage, Num(90)) ]

-----------------------------------------------------------------------------
(* memory.js: the compression policy *)

PromptHead == Seg("Summarize this conversation concisely, [...] Conversation:", 252)

PromptTail == Seg("Summary:", 10)

RoleLabel(m) == IF m.role = "user" THEN Seg("User", 4) ELSE Seg("Assistant", 9)

RECURSIVE ConversationText(_)
ConversationText(msgs) ==
    IF msgs = <<>> THEN <<>>
    ELSE LET m == Head(msgs)
             line == <<RoleLabel(m), Seg(": ", 2)>> \o Render(m.content)
         IN  IF Tail(msgs) = <<>> THEN line
             ELSE line \o <<Seg("blank line", 2)>> \o ConversationText(Tail(msgs))

createSummarizationPrompt(msgs) ==
    Str(<<PromptHead>> \o ConversationText(msgs) \o <<PromptTail>>)

\* messages.slice(-MIN_RECENT_MESSAGES, -1): the newest message cut off
RecentOfWithoutNewest(msgs) ==
    IF Len(msgs) <= MIN_RECENT_MESSAGES THEN SubSeq(msgs, 1, Len(msgs) - 1)
    ELSE SubSeq(msgs, Len(msgs) - MIN_RECENT_MESSAGES + 1, Len(msgs) - 1)

\* messages.slice(MIN_RECENT_MESSAGES): the minus sign lost
RecentOfFromIndex(msgs) ==
    IF Len(msgs) <= MIN_RECENT_MESSAGES THEN <<>>
    ELSE SubSeq(msgs, MIN_RECENT_MESSAGES + 1, Len(msgs))

\* messages.slice(-MIN_RECENT_MESSAGES)
RecentOf(msgs) ==
    IF Len(msgs) <= MIN_RECENT_MESSAGES THEN msgs
    ELSE SubSeq(msgs, Len(msgs) - MIN_RECENT_MESSAGES + 1, Len(msgs))

\* messages.slice(0, MIN_RECENT_MESSAGES): the minus sign lost
OlderOfFromStart(msgs) ==
    IF Len(msgs) <= MIN_RECENT_MESSAGES THEN msgs
    ELSE SubSeq(msgs, 1, MIN_RECENT_MESSAGES)

\* messages.slice(0, -MIN_RECENT_MESSAGES)
OlderOf(msgs) ==
    IF Len(msgs) <= MIN_RECENT_MESSAGES THEN <<>>
    ELSE SubSeq(msgs, 1, Len(msgs) - MIN_RECENT_MESSAGES)

SummaryPrefix == Seg("Previous conversation summary: ", 31)

\* `Previous conversation summary: ${summary}`
SummaryContextOf(summary) == Str(<<SummaryPrefix>> \o Render(summary))

Result(msgs, summarized, summaryContext) ==
    [messages |-> msgs, summarized |-> summarized, summaryContext |-> summaryContext]

\* the within-limits test turned round (>= for <=)
PrepareSyncFlipped(msgs, modelId) ==
    LET maxTokens == LookupLimit(modelId)
        targetTokens == TargetTokens(maxTokens)
        recentMessages == RecentOf(msgs)
        olderMessages == OlderOf(msgs)
    IN  IF LeqJS(targetTokens, Num(estimateMessagesTokens(msgs)))
        THEN [returned |-> TRUE, result |-> Result(msgs, FALSE, Null),
              recentMessages |-> <<>>, prompt |-> Null]
        ELSE IF Len(olderMessages) = 0
        THEN [returned |-> TRUE, result |-> Result(recentMessages, FALSE, Null),
              recentMessages |-> <<>>, prompt |-> Null]
        ELSE [returned |-> FALSE, result |-> Result(<<>>, FALSE, Null),
              recentMessages |-> recentMessages,
              prompt |-> createSummarizationPrompt(olderMessages)]

\* prepareMessagesForContext up to its await: either it returns at once
\* (returned = TRUE) or it has invoked summarizeFunc(prompt) and waits
PrepareSync(msgs, modelId) ==
    LET maxTokens == LookupLimit(modelId)
        targetTokens == TargetTokens(maxTokens)
        recentMessages == RecentOf(msgs)
        olderMessages == OlderOf(msgs)
    IN  IF LeqJS(Num(estimateMessagesTokens(msgs)), targetTokens)
        THEN [returned |-> TRUE, result |-> Result(msgs, FALSE, Null),
              recentMessages |-> <<>>, prompt |-> Null]
        ELSE IF Len(olderMessages) = 0
        THEN [returned |-> TRUE, result |-> Result(recentMessages, FALSE, Null),
              recentMessages |-> <<>>, prompt |-> Null]
        ELSE [returned |-> FALSE, result |-> Result(<<>>, FALSE, Null),
              recentMessages |-> recentMessages,
              prompt |-> createSummarizationPrompt(olderMessages)]

\* the summary message put after the recent messages
PrepareOnResolveAppended(recentMessages, summary) ==
    LET summaryContext == SummaryContextOf(summary)
    IN  Result(recentMessages
                   \o <<[role |-> "system", content |-> summaryContext, timestamp |-> 0]>>,
               TRUE, summaryContext)

\* the continuation after summarizeFunc resolved with summary
PrepareOnResolve(recentMessages, summary) ==
    LET summaryContext == SummaryContextOf(summary)
    IN  Result(<<[role |-> "system", content |-> summaryContext, timestamp |-> 0]>>
                   \o recentMessages,
               TRUE, summaryContext)

\* the catch branch: summarizeFunc rejected or threw
PrepareOnReject(recentMessages) == Result(recentMessages, FALSE, Null)

\* conversationSummary = result.summaryContext without the if around it
StoreSummaryAlways(old, result) == result.summaryContext

\* the summary stored only while none is stored
StoreSummaryOnce(old, result) ==
    IF Falsy(result.summaryContext) \/ ~Falsy(old) THEN old ELSE result.summaryContext

\* manager.prepare: if (result.summaryContext) conversationSummary = ...
StoreSummary(old, result) ==
    IF Falsy(result.summaryContext) THEN old ELSE result.summaryContext

-----------------------------------------------------------------------------
(* memory.js: export.  An object is a function from its keys to values;    *)
(* the result is the object that the returned JSON text parses to.          *)

NumberValue(n) == [kind |-> "number", n |-> n]

ArrayValue(items) == [kind |-> "array", items |-> items]

\* new Date().toISOString()
IsoNow == Str(<<Seg("new Date().toISOString()", 24)>>)

RoleText(role) == Str(<<Seg(role, Len(role))>>)

\* JSON.stringify of an object: a key whose value is undefined is left out
Stringify(obj) == [k \in { j \in DOMAIN obj : obj[j].kind # "undefined" } |-> obj[k]]

\* { role: m.role, content: m.content, timestamp: m.timestamp || null }
ExportEntry(m) ==
    Stringify([k \in { "role", "content", "timestamp" } |->
                  CASE k = "role"      -> RoleText(m.role)
                    [] k = "content"   -> m.content
                    [] k = "timestamp" -> IF m.timestamp = 0 THEN Null
                                          ELSE NumberValue(m.timestamp)])

\* ...metadata written first, so that the computed fields replace its keys
exportConversationMetadataFirst(msgs, metadata) ==
    Stringify([k \in { "exportedAt", "messageCount", "messages" } \cup DOMAIN metadata |->
                  IF k = "messages"
                  THEN ArrayValue([i \in 1..Len(msgs) |-> ExportEntry(msgs[i])])
                  ELSE IF k = "exportedAt" THEN IsoNow
                  ELSE IF k = "messageCount" THEN NumberValue(Len(msgs))
                  ELSE metadata[k]])

\* { exportedAt, messageCount, ...metadata, messages }: a key of metadata
\* replaces exportedAt and messageCount, and messages replaces a key of metadata
exportConversation(msgs, metadata) ==
    Stringify([k \in { "exportedAt", "messageCount", "messages" } \cup DOMAIN metadata |->
                  IF k = "messages"
                  THEN ArrayValue([i \in 1..Len(msgs) |-> ExportEntry(msgs[i])])
                  ELSE IF k \in DOMAIN metadata THEN metadata[k]
                  ELSE IF k = "exportedAt" THEN IsoNow
                  ELSE NumberValue(Len(msgs))])

-----------------------------------------------------------------------------
(* memory.js: createContextManager.  The manager's two closure variables    *)
(* are mgrModelId and conversationSummary.                                  *)

\* setModel that also drops the stored summary
setModelClearing(newModelId) ==
    /\ mgrModelId' = newModelId
    /\ requestedModel' = newModelId
    /\ conversationSummary' = Null

setModel(newModelId) ==
    /\ mgrModelId' = newModelId
    /\ requestedModel' = newModelId
    /\ UNCHANGED conversationSummary

clearSummary ==
    /\ conversationSummary' = Null
    /\ UNCHANGED <<mgrModelId, requestedModel>>

getMaxTokens == LookupLimit(mgrModelId)

getStatus(msgs) == getContextStatus(msgs, mgrModelId)

mgrNeedsSummarization(msgs) == needsSummarization(msgs, mgrModelId)

getSummary == conversationSummary

NoResult == Result(<<>>, FALSE, Null)

NoCall ==
    [state |-> "none", messages |-> <<>>, modelId |-> "", recentMessages |-> <<>>,
     prompt |-> Null, summarizeInvoked |-> FALSE, summaryBefore |-> Null,
     outcome |-> "none", summary |-> Null, orphaned |-> FALSE]

\* prepare that answers from the stored summary when there is one
prepareBeginCached(msgs) ==
    LET p == PrepareSync(msgs, mgrModelId)
        cached == ~p.returned /\ conversationSummary # Null
        result == IF cached
                  THEN Result(<<[role |-> "system", content |-> conversationSummary,
                                 timestamp |-> 0]>> \o p.recentMessages,
                              TRUE, conversationSummary)
                  ELSE p.result
        done == p.returned \/ cached
    IN  /\ call' = [state |-> IF done THEN "returned" ELSE "awaiting",
                    messages |-> msgs, modelId |-> mgrModelId,
                    recentMessages |-> p.recentMessages, prompt |-> p.prompt,
                    summarizeInvoked |-> ~done,
                    summaryBefore |-> conversationSummary,
                    outcome |-> "none", summary |-> Null, orphaned |-> FALSE]
        /\ ret' = IF done THEN result ELSE ret
        /\ conversationSummary' =
               IF done THEN StoreSummary(conversationSummary, result)
               ELSE conversationSummary
        /\ UNCHANGED <<mgrModelId, requestedModel>>

\* manager.prepare(msgs, summarizeFunc) up to the await inside it
prepareBegin(msgs) ==
    LET p == PrepareSync(msgs, mgrModelId)
    IN  /\ call' = [state |-> IF p.returned THEN "returned" ELSE "awaiting",
                    messages |-> msgs, modelId |-> mgrModelId,
                    recentMessages |-> p.recentMessages, prompt |-> p.prompt,
                    summarizeInvoked |-> ~p.returned,
                    summaryBefore |-> conversationSummary,
                    outcome |-> "none", summary |-> Null, orphaned |-> FALSE]
        /\ ret' = IF p.returned THEN p.result ELSE ret
        /\ conversationSummary' =
               IF p.returned THEN StoreSummary(conversationSummary, p.result)
               ELSE conversationSummary
        /\ UNCHANGED <<mgrModelId, requestedModel>>

\* summarizeFunc resolved with summary: prepareMessagesForContext returns and
\* manager.prepare stores the summary
prepareResolve(summary) ==
    LET result == PrepareOnResolve(call.recentMessages, summary)
    IN  /\ call' = [call EXCEPT !.state = "returned", !.outcome = "resolved",
                                !.summary = summary]
        /\ ret' = result
        /\ conversationSummary' = StoreSummary(conversationSummary, result)
        /\ UNCHANGED <<mgrModelId, requestedModel>>

\* the failure handled by dropping the stored summary
prepareRejectClearing ==
    LET result == PrepareOnReject(call.recentMessages)
    IN  /\ call' = [call EXCEPT !.state = "returned", !.outcome = "rejected"]
        /\ ret' = result
        /\ conversationSummary' = Null
        /\ UNCHANGED <<mgrModelId, requestedModel>>

\* the catch branch falling back to the default model as well
prepareRejectResetting ==
    LET result == PrepareOnReject(call.recentMessages)
    IN  /\ call' = [call EXCEPT !.state = "returned", !.outcome = "rejected"]
        /\ ret' = result
        /\ conversationSummary' = StoreSummary(conversationSummary, result)
        /\ mgrModelId' = "Qwen3-0.6B-q4f16_1-MLC"
        /\ UNCHANGED requestedModel

\* summarizeFunc rejected: the catch branch
prepareReject ==
    LET result == PrepareOnReject(call.recentMessages)
    IN  /\ call' = [call EXCEPT !.state = "returned", !.outcome = "rejected"]
        /\ ret' = result
        /\ conversationSummary' = StoreSummary(conversationSummary, result)
        /\ UNCHANGED <<mgrModelId, requestedModel>>

-----------------------------------------------------------------------------
(* Inputs *)

MAX_MESSAGE_LENGTH == 10000

ShortText == Str(<<Seg("hi", 2)>>)

LongText == Str(<<Seg("a message of MAX_MESSAGE_LENGTH characters", MAX_MESSAGE_LENGTH)>>)

\* the messages a caller appends: a role and a content
MsgKinds ==
    { [role |-> "user", content |-> ShortText],
      [role |-> "assistant", content |-> LongText] }

\* the model ids a caller selects: two of the table (limits 4096 and 8192),
\* one that is in no table, one that Object.prototype answers
ModelIds ==
    { "Qwen3-0.6B-q4f16_1-MLC", "Llama-3.2-1B-Instruct-q4f16_1-MLC",
      "some-other-model", "constructor" }

SummaryText == Str(<<Seg("Summary text.", 13)>>)

\* what the summarize capability resolves with
Summaries == { SummaryText, EmptyString }

NoEngine == "none"

\* currentModelId when the page loads with nothing in localStorage
DefaultModelId == "Qwen3-0.6B-q4f16_1-MLC"

NoChat == "none"

\* the chats of the user's Firestore: two that may exist from earlier
\* sessions and the ids createChat hands out
PriorChats == { "chatA", "chatB" }

NewChats == { "chatN" }

AllChats == PriorChats \cup NewChats

\* the text the user types
TypedText == Str(<<Seg("typed", 5)>>)

\* what the user types and what the model streams back
InputTexts == { TypedText }

Responses == { ShortText }

\* Date.now() when the page loads, and the clock's step and last value
StartTime == 1000

TickMs == 1000

MaxTime == 2000

\* sendMessage invocations that pass the guards while the user also
\* switches chats
MaxSends == 1

\* sendMessage invocations that pass the guards while the user stays in one chat
MaxClicks == 2

\* loadChat / createNewChat invocations waiting at once (one per chat)
MaxPending == 2

Msg(role, content, t) == [role |-> role, content |-> content, timestamp |-> t]

\* chatA as an earlier session left it: six messages, one of them long
StoredChatA ==
    << Msg("user", ShortText, 1), Msg("assistant", LongText, 2),
       Msg("user", ShortText, 3), Msg("assistant", ShortText, 4),
       Msg("user", ShortText, 5), Msg("assistant", ShortText, 6) >>

\* chatB as an earlier session left it: seven messages, one of them long
StoredChatB ==
    << Msg("user", ShortText, 7), Msg("assistant", ShortText, 8),
       Msg("user", ShortText, 9), Msg("assistant", LongText, 10),
       Msg("user", ShortText, 11), Msg("assistant", ShortText, 12),
       Msg("user", ShortText, 13) >>

NoDoc == [exists |-> FALSE, messages |-> <<>>, messageCount |-> 0]

IdleSend ==
    [pc |-> "idle", chatId |-> NoChat, role |-> "", content |-> Null, count |-> 0,
     llm |-> NoEngine, model |-> "", contextMessages |-> <<>>, live |-> FALSE, sent |-> 0]

NoSubscription == [chat |-> NoChat, active |-> FALSE]

\* no exported function has been called yet
NoApplication == [op |-> "none"]

-----------------------------------------------------------------------------
(* Spec: a caller of one context manager *)

AppInit ==
    /\ engine = NoEngine
    /\ currentModelId = "Qwen3-0.6B-q4f16_1-MLC"
    /\ currentChatId = NoChat
    /\ isGenerating = FALSE
    /\ unsubscribeMessages = NoSubscription
    /\ lastMessageTime = 0
    /\ now = StartTime
    /\ store = [c \in AllChats |-> NoDoc]
    /\ send = IdleSend
    /\ loads = {}
    /\ initPc = "start"
    /\ switches = {}

Init ==
    /\ messages = <<>>
    /\ \E id \in ModelIds : mgrModelId = id /\ requestedModel = id
    /\ conversationSummary = Null
    /\ call = NoCall
    /\ ret = NoResult
    /\ applied = NoApplication
    /\ AppInit

\* the caller appends a message to its list (before its first prepare)
PushMessage ==
    /\ call.state = "none"
    /\ Len(messages) < MaxLen
    /\ \E k \in MsgKinds :
          messages' = Append(messages, [role |-> k.role, content |-> k.content,
                                        timestamp |-> Len(messages) + 1])
    /\ UNCHANGED <<mgrVars, call, ret, appVars>>
    /\ UNCHANGED applied

SetModel ==
    /\ \E id \in ModelIds : setModel(id)
    /\ UNCHANGED <<messages, call, ret, appVars>>
    /\ UNCHANGED applied

ClearSummary ==
    /\ clearSummary
    /\ UNCHANGED <<messages, call, ret, appVars>>
    /\ UNCHANGED applied

Prepare ==
    /\ call.state # "awaiting"
    /\ prepareBegin(messages)
    /\ UNCHANGED <<messages, appVars>>
    /\ UNCHANGED applied

SummarizeResolve ==
    /\ call.state = "awaiting"
    /\ \E s \in Summaries : prepareResolve(s)
    /\ UNCHANGED <<messages, appVars>>
    /\ UNCHANGED applied

SummarizeReject ==
    /\ call.state = "awaiting"
    /\ prepareReject
    /\ UNCHANGED <<messages, appVars>>
    /\ UNCHANGED applied

Next ==
    \/ PushMessage
    \/ SetModel
    \/ ClearSummary
    \/ Prepare
    \/ SummarizeResolve
    \/ SummarizeReject

Spec == Init /\ [][Next]_vars

-----------------------------------------------------------------------------
(* app.js: the application.  Each action is one run of a handler from an    *)
(* await to the next.  Of a message the model keeps role, content and       *)
(* timestamp; the DOM updates of the handlers are left out.                 *)

\* setupEventListeners has run: the handlers below can be invoked
Listening == initPc \in { "engine", "done", "failed" }

Doc(msgs) == [exists |-> TRUE, messages |-> msgs, messageCount |-> Len(msgs)]

ExistingChats == { c \in AllChats : store[c].exists }

ErrorText == Str(<<Seg("Sorry, an error occurred. Please try again.", 43)>>)

\* subscribeToCurrentChat, with currentChatId being cur
Subscribed(cur) ==
    IF cur = NoChat THEN [unsubscribeMessages EXCEPT !.active = FALSE]
    ELSE [chat |-> cur, active |-> TRUE]

\* a conversation switch has cleared the summary: a prepare call still
\* waiting for summarize was issued for the conversation left behind
Orphaned == IF call.state = "awaiting" THEN [call EXCEPT !.orphaned = TRUE] ELSE call

\* messages = <a new array>: a placeholder the stream still writes to is
\* no longer part of the list
Rebound == [send EXCEPT !.live = FALSE]

\* the chat's messages as the Firestore client has them: the stored ones and
\* the write of an addMessage whose setDoc has not resolved yet
LocalView(chat) ==
    IF send.pc = "setDoc" /\ send.chatId = chat
    THEN Append(store[chat].messages, Msg(send.role, send.content, now))
    ELSE store[chat].messages

\* rateLimiter.minInterval
minInterval == 1000

\* the interval taken one millisecond short
canSendEarly(t) == ~(t - lastMessageTime < minInterval - 1)

\* rateLimiter.canSend() at the clock value t
canSend(t) == ~(t - lastMessageTime < minInterval)

\* initEngine() as sendMessage calls it: the engine at hand, or a
\* CreateMLCEngine(currentModelId) to wait for
AwaitInitEngine ==
    IF engine # NoEngine
    THEN [send EXCEPT !.pc = "engineReady", !.llm = engine]
    ELSE [send EXCEPT !.pc = "createEngine", !.model = currentModelId]

Finished == [IdleSend EXCEPT !.sent = send.sent]

(* init *)

\* getChats resolved: loadChat(chats[0].id) or createNewChat() is entered
InitLoadChats ==
    /\ initPc = "start"
    /\ IF ExistingChats # {}
       THEN \E c \in ExistingChats :
               /\ currentChatId' = c
               /\ initPc' = "loadChat"
       ELSE /\ initPc' = "createChat"
            /\ UNCHANGED currentChatId
    /\ UNCHANGED <<messages, mgrVars, call, ret, engine, currentModelId, isGenerating,
                   unsubscribeMessages, lastMessageTime, now, store, send, loads>>
    /\ UNCHANGED <<switches, applied>>

\* getMessages resolved inside init's loadChat; init goes on to
\* setupEventListeners and calls initEngine
InitChatLoaded ==
    /\ initPc = "loadChat"
    /\ messages' = store[currentChatId].messages
    /\ clearSummary
    /\ unsubscribeMessages' = Subscribed(currentChatId)
    /\ initPc' = "engine"
    /\ UNCHANGED <<call, ret, engine, currentModelId, currentChatId, isGenerating,
                   lastMessageTime, now, store, send, loads>>
    /\ UNCHANGED <<switches, applied>>

\* createChat resolved inside init's createNewChat
InitChatCreated ==
    /\ initPc = "createChat"
    /\ \E n \in NewChats \ ExistingChats :
          /\ store' = [store EXCEPT ![n] = Doc(<<>>)]
          /\ currentChatId' = n
          /\ unsubscribeMessages' = Subscribed(n)
    /\ messages' = <<>>
    /\ clearSummary
    /\ initPc' = "engine"
    /\ UNCHANGED <<call, ret, engine, currentModelId, isGenerating,
                   lastMessageTime, now, send, loads>>
    /\ UNCHANGED <<switches, applied>>

\* CreateMLCEngine resolved inside init's initEngine, which was called with
\* the model id of the page load (no handler was attached before)
InitEngineLoaded ==
    /\ initPc = "engine"
    /\ engine' = DefaultModelId
    /\ initPc' = "done"
    /\ UNCHANGED <<messages, mgrVars, call, ret, currentModelId, currentChatId,
                   isGenerating, unsubscribeMessages, lastMessageTime, now, store,
                   send, loads>>
    /\ UNCHANGED <<switches, applied>>

InitEngineFailed ==
    /\ initPc = "engine"
    /\ initPc' = "failed"
    /\ UNCHANGED <<messages, mgrVars, call, ret, engine, currentModelId, currentChatId,
                   isGenerating, unsubscribeMessages, lastMessageTime, now, store,
                   send, loads>>
    /\ UNCHANGED <<switches, applied>>

(* chat management *)

\* loadChat(chatId) up to await getMessages(chatId)
LoadChat ==
    /\ Listening
    /\ Cardinality(loads) < MaxPending
    /\ \E chatId \in ExistingChats :
          /\ chatId # currentChatId
          /\ currentChatId' = chatId
          /\ loads' = loads \cup {[kind |-> "loadChat", chatId |-> chatId]}
    /\ unsubscribeMessages' = [unsubscribeMessages EXCEPT !.active = FALSE]
    /\ UNCHANGED <<messages, mgrVars, call, ret, engine, currentModelId, isGenerating,
                   lastMessageTime, now, store, send, initPc>>
    /\ UNCHANGED <<switches, applied>>

\* getMessages resolved: the rest of loadChat
LoadChatLoaded ==
    /\ \E l \in loads :
          /\ l.kind = "loadChat"
          /\ messages' = LocalView(l.chatId)
          /\ loads' = loads \ {l}
    /\ clearSummary
    /\ call' = Orphaned
    /\ unsubscribeMessages' = Subscribed(currentChatId)
    /\ send' = Rebound
    /\ UNCHANGED <<ret, engine, currentModelId, currentChatId, isGenerating,
                   lastMessageTime, now, store, initPc>>
    /\ UNCHANGED <<switches, applied>>

\* createNewChat() up to await createChat()
CreateNewChat ==
    /\ Listening
    /\ Cardinality(loads) < MaxPending
    /\ \E n \in NewChats \ ExistingChats :
          /\ \A l \in loads : l.chatId # n
          /\ loads' = loads \cup {[kind |-> "createNewChat", chatId |-> n]}
    /\ UNCHANGED <<messages, mgrVars, call, ret, engine, currentModelId, currentChatId,
                   isGenerating, unsubscribeMessages, lastMessageTime, now, store,
                   send, initPc>>
    /\ UNCHANGED <<switches, applied>>

\* createChat resolved: the rest of createNewChat
CreateNewChatCreated ==
    /\ \E l \in loads :
          /\ l.kind = "createNewChat"
          /\ store' = [store EXCEPT ![l.chatId] = Doc(<<>>)]
          /\ currentChatId' = l.chatId
          /\ unsubscribeMessages' = Subscribed(l.chatId)
          /\ loads' = loads \ {l}
    /\ messages' = <<>>
    /\ clearSummary
    /\ call' = Orphaned
    /\ send' = Rebound
    /\ UNCHANGED <<ret, engine, currentModelId, isGenerating,
                   lastMessageTime, now, initPc>>
    /\ UNCHANGED <<switches, applied>>

\* the subscription's callback: messages = newMessages
Snapshot ==
    /\ unsubscribeMessages.active
    /\ messages' = LocalView(unsubscribeMessages.chat)
    /\ send' = Rebound
    /\ UNCHANGED <<mgrVars, call, ret, engine, currentModelId, currentChatId,
                   isGenerating, unsubscribeMessages, lastMessageTime, now, store,
                   loads, initPc>>
    /\ UNCHANGED <<switches, applied>>

Tick ==
    /\ now < MaxTime
    /\ now' = now + TickMs
    /\ UNCHANGED <<messages, mgrVars, call, ret, engine, currentModelId, currentChatId,
                   isGenerating, unsubscribeMessages, lastMessageTime, store, send,
                   loads, initPc>>
    /\ UNCHANGED <<switches, applied>>

(* sendMessage *)

\* sendMessage() from the click or the Enter key, up to addMessage's first
\* await; the guards that return early leave the state as it is
\* sendMessage without `isGenerating = true`
SendMessageWithinUnlocked(budget) ==
    /\ Listening
    /\ ~isGenerating
    /\ send.sent < budget
    /\ canSend(now)
    /\ \E text \in InputTexts :
          /\ Length(text) <= MAX_MESSAGE_LENGTH
          /\ messages' = Append(messages, Msg("user", text, now))
          /\ send' = [IdleSend EXCEPT !.pc = "setDoc", !.chatId = currentChatId,
                                      !.role = "user", !.content = text,
                                      !.sent = send.sent + 1]
    /\ lastMessageTime' = now
    /\ UNCHANGED <<mgrVars, call, ret, engine, currentModelId, currentChatId,
                   isGenerating, unsubscribeMessages, now, store, loads, initPc>>
    /\ UNCHANGED <<switches, applied>>

SendMessageWithin(budget) ==
    /\ Listening
    /\ ~isGenerating
    /\ send.sent < budget
    /\ canSend(now)
    /\ \E text \in InputTexts :
          /\ Length(text) <= MAX_MESSAGE_LENGTH
          /\ messages' = Append(messages, Msg("user", text, now))
          /\ send' = [IdleSend EXCEPT !.pc = "setDoc", !.chatId = currentChatId,
                                      !.role = "user", !.content = text,
                                      !.sent = send.sent + 1]
    /\ lastMessageTime' = now
    /\ isGenerating' = TRUE
    /\ UNCHANGED <<mgrVars, call, ret, engine, currentModelId, currentChatId,
                   unsubscribeMessages, now, store, loads, initPc>>
    /\ UNCHANGED <<switches, applied>>

SendMessage == SendMessageWithin(MaxSends)

\* addMessage: setDoc resolved, getDoc is issued
AddMessageSetDoc ==
    /\ send.pc = "setDoc"
    /\ store' = [store EXCEPT ![send.chatId].messages =
                                  Append(@, Msg(send.role, send.content, now))]
    /\ send' = [send EXCEPT !.pc = "getDoc"]
    /\ UNCHANGED <<messages, mgrVars, call, ret, engine, currentModelId, currentChatId,
                   isGenerating, unsubscribeMessages, lastMessageTime, now, loads,
                   initPc>>
    /\ UNCHANGED <<switches, applied>>

\* addMessage: getDoc resolved with the chat's messageCount, updateDoc is issued
AddMessageGetDoc ==
    /\ send.pc = "getDoc"
    /\ send' = [send EXCEPT !.pc = "updateDoc", !.count = store[send.chatId].messageCount]
    /\ UNCHANGED <<messages, mgrVars, call, ret, engine, currentModelId, currentChatId,
                   isGenerating, unsubscribeMessages, lastMessageTime, now, store,
                   loads, initPc>>
    /\ UNCHANGED <<switches, applied>>

\* the user message is saved: sendMessage updates the title of a first
\* message or goes on to initEngine
SendUserSaved ==
    /\ send.pc = "updateDoc"
    /\ send.role = "user"
    /\ store' = [store EXCEPT ![send.chatId].messageCount = send.count + 1]
    /\ send' = IF Len(messages) = 1 THEN [send EXCEPT !.pc = "updateTitle"]
               ELSE AwaitInitEngine
    /\ UNCHANGED <<messages, mgrVars, call, ret, engine, currentModelId, currentChatId,
                   isGenerating, unsubscribeMessages, lastMessageTime, now, loads,
                   initPc>>
    /\ UNCHANGED <<switches, applied>>

\* addMessage for the user message or the updateChat of the title rejected:
\* the two awaits stand before the try block, sendMessage ends there
SendUserSaveFailed ==
    /\ \/ send.pc \in { "setDoc", "getDoc", "updateDoc" } /\ send.role = "user"
       \/ send.pc = "updateTitle"
    /\ send' = [send EXCEPT !.pc = "aborted"]
    /\ UNCHANGED <<messages, mgrVars, call, ret, engine, currentModelId, currentChatId,
                   isGenerating, unsubscribeMessages, lastMessageTime, now, store,
                   loads, initPc>>
    /\ UNCHANGED <<switches, applied>>

\* updateChat resolved
SendTitleUpdated ==
    /\ send.pc = "updateTitle"
    /\ send' = AwaitInitEngine
    /\ UNCHANGED <<messages, mgrVars, call, ret, engine, currentModelId, currentChatId,
                   isGenerating, unsubscribeMessages, lastMessageTime, now, store,
                   loads, initPc>>
    /\ UNCHANGED <<switches, applied>>

\* initEngine returned the engine at hand: contextManager.prepare is called
SendEngineReady ==
    /\ send.pc = "engineReady"
    /\ prepareBegin(messages)
    /\ send' = [send EXCEPT !.pc = "awaitPrepare"]
    /\ UNCHANGED <<messages, engine, currentModelId, currentChatId, isGenerating,
                   unsubscribeMessages, lastMessageTime, now, store, loads, initPc>>
    /\ UNCHANGED <<switches, applied>>

\* CreateMLCEngine resolved inside sendMessage's initEngine
SendEngineCreated ==
    /\ send.pc = "createEngine"
    /\ engine' = send.model
    /\ prepareBegin(messages)
    /\ send' = [send EXCEPT !.pc = "awaitPrepare", !.llm = send.model]
    /\ UNCHANGED <<messages, currentModelId, currentChatId, isGenerating,
                   unsubscribeMessages, lastMessageTime, now, store, loads, initPc>>
    /\ UNCHANGED <<switches, applied>>

\* the summarize callback's completion resolved: response content || ''
AppSummarizeResolve ==
    /\ send.pc = "awaitPrepare"
    /\ call.state = "awaiting"
    /\ \E s \in Summaries : prepareResolve(s)
    /\ UNCHANGED <<messages, appVars>>
    /\ UNCHANGED applied

AppSummarizeReject ==
    /\ send.pc = "awaitPrepare"
    /\ call.state = "awaiting"
    /\ prepareReject
    /\ UNCHANGED <<messages, appVars>>
    /\ UNCHANGED applied

\* prepare returned: the streaming completion is requested
SendPrepared ==
    /\ send.pc = "awaitPrepare"
    /\ call.state = "returned"
    /\ send' = [send EXCEPT !.pc = "awaitStream", !.contextMessages = ret.messages]
    /\ call' = NoCall
    /\ ret' = NoResult
    /\ UNCHANGED <<messages, mgrVars, engine, currentModelId, currentChatId,
                   isGenerating, unsubscribeMessages, lastMessageTime, now, store,
                   loads, initPc>>
    /\ UNCHANGED <<switches, applied>>

\* the stream is there: the assistant placeholder is pushed
SendStreamCreated ==
    /\ send.pc = "awaitStream"
    /\ messages' = Append(messages, Msg("assistant", EmptyString, now))
    /\ send' = [send EXCEPT !.pc = "streaming", !.live = TRUE, !.contextMessages = <<>>]
    /\ UNCHANGED <<mgrVars, call, ret, engine, currentModelId, currentChatId,
                   isGenerating, unsubscribeMessages, lastMessageTime, now, store,
                   loads, initPc>>
    /\ UNCHANGED <<switches, applied>>

\* the stream ended: addMessage(currentChatId, 'assistant', fullResponse)
SendStreamDone ==
    /\ send.pc = "streaming"
    /\ \E fullResponse \in Responses :
          /\ messages' = IF send.live
                         THEN [messages EXCEPT ![Len(messages)].content = fullResponse]
                         ELSE messages
          /\ send' = [send EXCEPT !.pc = "setDoc", !.chatId = currentChatId,
                                  !.role = "assistant", !.content = fullResponse]
    /\ UNCHANGED <<mgrVars, call, ret, engine, currentModelId, currentChatId,
                   isGenerating, unsubscribeMessages, lastMessageTime, now, store,
                   loads, initPc>>
    /\ UNCHANGED <<switches, applied>>

\* the assistant message is saved: input is enabled again
SendAssistantSaved ==
    /\ send.pc = "updateDoc"
    /\ send.role = "assistant"
    /\ store' = [store EXCEPT ![send.chatId].messageCount = send.count + 1]
    /\ send' = Finished
    /\ isGenerating' = FALSE
    /\ UNCHANGED <<messages, mgrVars, call, ret, engine, currentModelId, currentChatId,
                   unsubscribeMessages, lastMessageTime, now, loads, initPc>>
    /\ UNCHANGED <<switches, applied>>

\* the catch branch: engine creation, the completion, the stream or the
\* assistant's addMessage rejected
SendFailed ==
    /\ \/ send.pc \in { "createEngine", "awaitStream", "streaming" }
       \/ send.pc \in { "setDoc", "getDoc", "updateDoc" } /\ send.role = "assistant"
    /\ messages' = Append(messages, Msg("assistant", ErrorText, now))
    /\ send' = Finished
    /\ isGenerating' = FALSE
    /\ UNCHANGED <<mgrVars, call, ret, engine, currentModelId, currentChatId,
                   unsubscribeMessages, lastMessageTime, now, store, loads, initPc>>
    /\ UNCHANGED <<switches, applied>>

InitApp ==
    /\ messages = <<>>
    /\ mgrModelId = "Qwen3-0.6B-q4f16_1-MLC"
    /\ requestedModel = "Qwen3-0.6B-q4f16_1-MLC"
    /\ conversationSummary = Null
    /\ call = NoCall
    /\ ret = NoResult
    /\ engine = NoEngine
    /\ currentModelId = "Qwen3-0.6B-q4f16_1-MLC"
    /\ currentChatId = NoChat
    /\ isGenerating = FALSE
    /\ unsubscribeMessages = NoSubscription
    /\ lastMessageTime = 0
    /\ now = StartTime
    /\ \E prior \in BOOLEAN :
          store = [c \in AllChats |->
                      IF ~prior THEN NoDoc
                      ELSE IF c = "chatA" THEN Doc(StoredChatA)
                      ELSE IF c = "chatB" THEN Doc(StoredChatB)
                      ELSE NoDoc]
    /\ send = IdleSend
    /\ loads = {}
    /\ initPc = "start"
    /\ switches = {}
    /\ applied = NoApplication

NextApp ==
    \/ InitLoadChats
    \/ InitChatLoaded
    \/ InitChatCreated
    \/ InitEngineLoaded
    \/ InitEngineFailed
    \/ LoadChat
    \/ LoadChatLoaded
    \/ CreateNewChat
    \/ CreateNewChatCreated
    \/ Snapshot
    \/ Tick
    \/ SendMessage
    \/ AddMessageSetDoc
    \/ AddMessageGetDoc
    \/ SendUserSaved
    \/ SendUserSaveFailed
    \/ SendTitleUpdated
    \/ SendEngineReady
    \/ SendEngineCreated
    \/ AppSummarizeResolve
    \/ AppSummarizeReject
    \/ SendPrepared
    \/ SendStreamCreated
    \/ SendStreamDone
    \/ SendAssistantSaved
    \/ SendFailed

SpecApp == InitApp /\ [][NextApp]_vars

-----------------------------------------------------------------------------
(* SpecSend: the application with the user staying in one chat: sending,    *)
(* switching the model, the message subscription.                           *)

\* switchModel invocations waiting at once
MaxSwitches == 1

\* the options of the model select the user picks from
SelectableModels == { "Qwen3-0.6B-q4f16_1-MLC", "Llama-3.2-1B-Instruct-q4f16_1-MLC" }

\* switchModel(newModelId) from the select's change event, up to its first
\* await: engine.unload() when an engine is loaded, else the CreateMLCEngine
\* of initEngine; it returns at once for the loaded model
SwitchModel ==
    /\ Listening
    /\ Cardinality(switches) < MaxSwitches
    /\ \E newModelId \in SelectableModels :
          /\ ~(newModelId = currentModelId /\ engine # NoEngine)
          /\ IF engine # NoEngine
             THEN /\ switches' = switches \cup {[pc |-> "unload", model |-> newModelId]}
                  /\ UNCHANGED <<currentModelId, mgrVars>>
             ELSE /\ currentModelId' = newModelId
                  /\ setModel(newModelId)
                  /\ switches' = switches \cup {[pc |-> "createEngine", model |-> newModelId]}
    /\ UNCHANGED <<messages, call, ret, engine, currentChatId, isGenerating,
                   unsubscribeMessages, lastMessageTime, now, store, send, loads,
                   initPc, applied>>

\* switchModel without contextManager.setModel(newModelId)
SwitchUnloadedWithoutSetModel ==
    /\ \E w \in switches :
          /\ w.pc = "unload"
          /\ engine' = NoEngine
          /\ currentModelId' = w.model
          /\ switches' = (switches \ {w}) \cup {[pc |-> "createEngine", model |-> w.model]}
    /\ UNCHANGED <<messages, mgrVars, call, ret, currentChatId, isGenerating,
                   unsubscribeMessages, lastMessageTime, now, store, send, loads,
                   initPc, applied>>

\* engine.unload() settled (a rejection is caught): engine = null, the ids
\* are set and initEngine calls CreateMLCEngine(currentModelId)
SwitchUnloaded ==
    /\ \E w \in switches :
          /\ w.pc = "unload"
          /\ engine' = NoEngine
          /\ currentModelId' = w.model
          /\ setModel(w.model)
          /\ switches' = (switches \ {w}) \cup {[pc |-> "createEngine", model |-> w.model]}
    /\ UNCHANGED <<messages, call, ret, currentChatId, isGenerating,
                   unsubscribeMessages, lastMessageTime, now, store, send, loads,
                   initPc, applied>>

\* CreateMLCEngine resolved inside switchModel's initEngine
SwitchEngineCreated ==
    /\ \E w \in switches :
          /\ w.pc = "createEngine"
          /\ engine' = w.model
          /\ switches' = switches \ {w}
    /\ UNCHANGED <<messages, mgrVars, call, ret, currentModelId, currentChatId,
                   isGenerating, unsubscribeMessages, lastMessageTime, now, store,
                   send, loads, initPc, applied>>

\* CreateMLCEngine rejected: initEngine rethrows and switchModel ends
SwitchEngineFailed ==
    /\ \E w \in switches :
          /\ w.pc = "createEngine"
          /\ switches' = switches \ {w}
    /\ UNCHANGED <<messages, mgrVars, call, ret, engine, currentModelId, currentChatId,
                   isGenerating, unsubscribeMessages, lastMessageTime, now, store,
                   send, loads, initPc, applied>>

SendMessageClick == SendMessageWithin(MaxClicks)

NextSend ==
    \/ InitLoadChats
    \/ InitChatLoaded
    \/ InitChatCreated
    \/ InitEngineLoaded
    \/ InitEngineFailed
    \/ Snapshot
    \/ Tick
    \/ SwitchModel
    \/ SwitchUnloaded
    \/ SwitchEngineCreated
    \/ SwitchEngineFailed
    \/ SendMessageClick
    \/ AddMessageSetDoc
    \/ AddMessageGetDoc
    \/ SendUserSaved
    \/ SendUserSaveFailed
    \/ SendTitleUpdated
    \/ SendEngineReady
    \/ SendEngineCreated
    \/ AppSummarizeResolve
    \/ AppSummarizeReject
    \/ SendPrepared
    \/ SendStreamCreated
    \/ SendStreamDone
    \/ SendAssistantSaved
    \/ SendFailed

SpecSend == InitApp /\ [][NextSend]_vars

\* the continuation of sendMessage after its await of prepare is a job the
\* event loop runs once the promise has settled
SpecSendLive == SpecSend /\ WF_vars(SendPrepared)

-----------------------------------------------------------------------------
(* SpecRate: the application of a user without earlier chats, sending again  *)
(* and again in the chat init creates while the clock moves; applied        *)
(* records every call of rateLimiter.canSend() and the clock reads of those *)
(* that returned true.  Three typed messages stay under every target, so    *)
(* prepare returns without summarizing.                                     *)

\* sendMessage invocations that reach rateLimiter.canSend()
MaxAttempts == 3

\* what Date.now() reads as time passes
ClockValues == { 1000, 1999, 2000, 2999 }

ClockMoves ==
    /\ \E t \in ClockValues : t > now /\ now' = t
    /\ UNCHANGED <<messages, mgrVars, call, ret, engine, currentModelId, currentChatId,
                   isGenerating, unsubscribeMessages, lastMessageTime, store, send,
                   loads, initPc, switches, applied>>

\* the canSend calls made so far and the clock reads of those that returned true
Attempts == IF applied.op = "canSend" THEN applied.n ELSE 0

Accepted == IF applied.op = "canSend" THEN applied.trues ELSE <<>>

\* sendMessage() with its text and isGenerating guards passed: canSend() is
\* called; when it returns false sendMessage returns, else it runs up to
\* addMessage's first await
SendMessageAttempt ==
    /\ Listening
    /\ ~isGenerating
    /\ Attempts < MaxAttempts
    /\ \E text \in InputTexts :
          /\ Length(text) <= MAX_MESSAGE_LENGTH
          /\ IF canSend(now)
             THEN /\ lastMessageTime' = now
                  /\ isGenerating' = TRUE
                  /\ messages' = Append(messages, Msg("user", text, now))
                  /\ send' = [IdleSend EXCEPT !.pc = "setDoc", !.chatId = currentChatId,
                                              !.role = "user", !.content = text,
                                              !.sent = send.sent + 1]
                  /\ applied' = [op |-> "canSend", n |-> Attempts + 1, at |-> now,
                                 out |-> TRUE, trues |-> Append(Accepted, now)]
             ELSE /\ applied' = [op |-> "canSend", n |-> Attempts + 1, at |-> now,
                                 out |-> FALSE, trues |-> Accepted]
                  /\ UNCHANGED <<lastMessageTime, isGenerating, messages, send>>
    /\ UNCHANGED <<mgrVars, call, ret, engine, currentModelId, currentChatId,
                   unsubscribeMessages, now, store, loads, initPc, switches>>

\* the page loads for a user who has no chats yet
InitRate ==
    /\ InitApp
    /\ \A c \in AllChats : ~store[c].exists

NextRate ==
    \/ InitLoadChats
    \/ InitChatCreated
    \/ InitEngineLoaded
    \/ InitEngineFailed
    \/ ClockMoves
    \/ SendMessageAttempt
    \/ AddMessageSetDoc
    \/ AddMessageGetDoc
    \/ SendUserSaved
    \/ SendUserSaveFailed
    \/ SendTitleUpdated
    \/ SendEngineReady
    \/ SendEngineCreated
    \/ SendPrepared
    \/ SendStreamCreated
    \/ SendStreamDone
    \/ SendAssistantSaved
    \/ SendFailed

SpecRate == InitRate /\ [][NextRate]_vars

-----------------------------------------------------------------------------
(* SpecAdd: db.js addMessage called for one chat by callers that do not     *)
(* wait for each other (two tabs or devices of the same user); applied      *)
(* holds where each call stands and the messageCount it read.               *)

\* addMessage calls of one behaviour
MaxAdds == 3

AddCalls == 1..MaxAdds

\* createChat has resolved: the chat document exists with messageCount 0
InitAdd ==
    /\ messages = <<>>
    /\ mgrModelId = DefaultModelId
    /\ requestedModel = DefaultModelId
    /\ conversationSummary = Null
    /\ call = NoCall
    /\ ret = NoResult
    /\ engine = NoEngine
    /\ currentModelId = DefaultModelId
    /\ currentChatId \in NewChats
    /\ isGenerating = FALSE
    /\ unsubscribeMessages = NoSubscription
    /\ lastMessageTime = 0
    /\ now = StartTime
    /\ store = [c \in AllChats |-> IF c = currentChatId THEN Doc(<<>>) ELSE NoDoc]
    /\ send = IdleSend
    /\ loads = {}
    /\ initPc = "start"
    /\ switches = {}
    /\ applied = NoApplication

\* the calls, each not yet made, at one of its three awaits, or returned
AddsInit == [op |-> "addMessage", calls |-> [i \in AddCalls |-> [pc |-> "idle", count |-> 0]]]

Adds == IF applied.op = "addMessage" THEN applied.calls ELSE AddsInit.calls

AddAt(i, pc, count) ==
    [op |-> "addMessage", calls |-> [Adds EXCEPT ![i] = [pc |-> pc, count |-> count]]]

\* addMessage(chatId, role, content): setDoc of the message is issued
AddMessageCall ==
    /\ \E i \in AddCalls :
          /\ Adds[i].pc = "idle"
          /\ \A j \in 1..(i - 1) : Adds[j].pc # "idle"
          /\ applied' = AddAt(i, "setDoc", 0)
    /\ UNCHANGED <<messages, mgrVars, call, ret, appVars>>

\* setDoc resolved: the message is in the collection, getDoc of the chat is issued
AddMessageWritten ==
    /\ \E i \in AddCalls, chat \in ExistingChats, text \in InputTexts :
          /\ Adds[i].pc = "setDoc"
          /\ store' = [store EXCEPT ![chat].messages = Append(@, Msg("user", text, now))]
          /\ applied' = AddAt(i, "getDoc", 0)
    /\ UNCHANGED <<messages, mgrVars, call, ret, engine, currentModelId, currentChatId,
                   isGenerating, unsubscribeMessages, lastMessageTime, now, send, loads,
                   initPc, switches>>

\* getDoc resolved: currentCount = chatSnap.data()?.messageCount || 0
AddMessageCountRead ==
    /\ \E i \in AddCalls, chat \in ExistingChats :
          /\ Adds[i].pc = "getDoc"
          /\ applied' = AddAt(i, "updateDoc", store[chat].messageCount)
    /\ UNCHANGED <<messages, mgrVars, call, ret, appVars>>

\* updateDoc resolved: messageCount = currentCount + 1, addMessage returns
AddMessageCounted ==
    /\ \E i \in AddCalls, chat \in ExistingChats :
          /\ Adds[i].pc = "updateDoc"
          /\ store' = [store EXCEPT ![chat].messageCount = Adds[i].count + 1]
          /\ applied' = AddAt(i, "done", Adds[i].count)
    /\ UNCHANGED <<messages, mgrVars, call, ret, engine, currentModelId, currentChatId,
                   isGenerating, unsubscribeMessages, lastMessageTime, now, send, loads,
                   initPc, switches>>

NextAdd ==
    \/ AddMessageCall
    \/ AddMessageWritten
    \/ AddMessageCountRead
    \/ AddMessageCounted

SpecAdd == InitAdd /\ [][NextAdd]_vars

-----------------------------------------------------------------------------
(* SpecPure: a caller applying the exported functions of memory.js to       *)
(* inputs drawn from bounded sets; applied records the call it makes (one   *)
(* call in a behaviour: the functions keep nothing between calls).          *)

\* longest text, in characters, handed to estimateTokens
MaxChars == 15

\* longest list handed to the functions that take a message list
MaxListLen == 3

TextOfLength(n) == IF n = 0 THEN EmptyString ELSE Str(<<Seg("x", n)>>)

\* a text of 3000 characters: with a long one it passes 90% of a limit of 4096
MediumText == TextOfLength(3000)

\* the values estimateTokens is handed
Texts == { TextOfLength(n) : n \in 0..MaxChars } \cup { Null, Undefined }

\* the contents of the lists handed to estimateMessagesTokens
Contents == { Null, Undefined, EmptyString, TextOfLength(1), TextOfLength(7),
              TextOfLength(8), LongText }

\* the lists of at most n messages of role user with the contents cs
ListsOf(cs, n) ==
    UNION { [1..k -> { Msg("user", c, 1) : c \in cs }] : k \in 0..n }

ApplyEstimateTokens ==
    /\ applied = NoApplication
    /\ \E text \in Texts :
          applied' = [op |-> "estimateTokens", in |-> text, out |-> estimateTokens(text)]
    /\ UNCHANGED <<messages, mgrVars, call, ret, appVars>>

ApplyEstimateMessagesTokens ==
    /\ applied = NoApplication
    /\ \E msgs \in ListsOf(Contents, MaxListLen) :
          applied' = [op |-> "estimateMessagesTokens", in |-> msgs,
                      out |-> estimateMessagesTokens(msgs)]
    /\ UNCHANGED <<messages, mgrVars, call, ret, appVars>>

ApplyGetContextStatus ==
    /\ applied = NoApplication
    /\ \E msgs \in ListsOf({ EmptyString, ShortText, MediumText, LongText }, MaxListLen),
          id \in ModelIds :
          applied' = [op |-> "getContextStatus", in |-> [messages |-> msgs, modelId |-> id],
                      out |-> getContextStatus(msgs, id)]
    /\ UNCHANGED <<messages, mgrVars, call, ret, appVars>>

\* most messages before the last 6 in a list handed to prepareMessagesForContext
MaxOlder == 2

Roles == { "user", "assistant", "system" }

\* six long messages: any list ending in them is over every target
RecentSix ==
    [i \in 1..6 |-> Msg(IF i % 2 = 1 THEN "user" ELSE "assistant", LongText, 10 + i)]

\* the lists of 1..MaxOlder short messages of any role
OlderLists ==
    UNION { [1..k -> { Msg(r, c, 1) : r \in Roles, c \in { ShortText, TextOfLength(7) } }]
            : k \in 1..MaxOlder }

\* prepareMessagesForContext(msgs, id, summarizeFunc) up to summarizeFunc(prompt)
ApplyPrepareMessagesForContext ==
    /\ applied = NoApplication
    /\ \E older \in OlderLists, id \in ModelIds :
          applied' = [op |-> "prepareMessagesForContext",
                      in |-> [messages |-> older \o RecentSix, modelId |-> id],
                      out |-> PrepareSync(older \o RecentSix, id)]
    /\ UNCHANGED <<messages, mgrVars, call, ret, appVars>>

\* longest list handed to exportConversation
MaxExported == 2

\* the keys a caller puts into metadata: the two exportChat supplies, and the
\* three the snapshot has of its own
MetadataKeys == { "chatTitle", "model", "exportedAt", "messageCount", "messages" }

\* a supplied value; undefined is what chat?.title is when the chat is gone
MetadataValues == { Str(<<Seg("X", 1)>>), Undefined }

Metadatas == UNION { [ks -> MetadataValues] : ks \in SUBSET MetadataKeys }

\* messages with and without a timestamp
ExportLists ==
    UNION { [1..k -> { Msg("user", ShortText, 5), Msg("assistant", ShortText, 0),
                       Msg("assistant", Null, 6) }] : k \in 0..MaxExported }

ApplyExportConversation ==
    /\ applied = NoApplication
    /\ \E msgs \in ExportLists, metadata \in Metadatas :
          applied' = [op |-> "exportConversation",
                      in |-> [messages |-> msgs, metadata |-> metadata],
                      out |-> exportConversation(msgs, metadata)]
    /\ UNCHANGED <<messages, mgrVars, call, ret, appVars>>

\* lists of one message more than the recent window, so that prepare shows
\* which way it went: empty, short and long messages, with estimates on both
\* sides of 70% of the limits
ThresholdLists ==
    [1..(MIN_RECENT_MESSAGES + 1) -> { Msg("user", c, 1) : c \in { EmptyString, ShortText, LongText } }]

\* the three threshold tests made on one list and model id
ApplyThresholdTests ==
    /\ applied = NoApplication
    /\ \E msgs \in ThresholdLists, id \in ModelIds :
          applied' = [op |-> "thresholdTests",
                      in |-> [messages |-> msgs, modelId |-> id],
                      status |-> getContextStatus(msgs, id).needsSummarization,
                      predicate |-> needsSummarization(msgs, id),
                      prepared |-> PrepareSync(msgs, id)]
    /\ UNCHANGED <<messages, mgrVars, call, ret, appVars>>

NextPure ==
    \/ ApplyThresholdTests
    \/ ApplyExportConversation
    \/ ApplyEstimateTokens
    \/ ApplyEstimateMessagesTokens
    \/ ApplyGetContextStatus
    \/ ApplyPrepareMessagesForContext

SpecPure == Init /\ [][NextPure]_vars

-----------------------------------------------------------------------------
(* SpecQuery: a caller that holds one list and calls the manager's queries  *)
(* and prepare on it.                                                       *)

\* the lists the caller holds: none, a short one, one over every target
QueryLists ==
    { <<>>,
      << Msg("user", ShortText, 1), Msg("assistant", MediumText, 2) >>,
      << Msg("system", ShortText, 1) >> \o RecentSix }

InitQuery ==
    /\ messages \in QueryLists
    /\ \E id \in ModelIds : mgrModelId = id /\ requestedModel = id
    /\ conversationSummary = Null
    /\ call = NoCall
    /\ ret = NoResult
    /\ applied = NoApplication
    /\ AppInit

\* getContextStatus(messages, modelId), called with the manager's model
GetContextStatus ==
    /\ applied' = [op |-> "getContextStatus", out |-> getContextStatus(messages, mgrModelId)]
    /\ UNCHANGED <<messages, mgrVars, call, ret, appVars>>

\* manager.getStatus(messages)
GetStatus ==
    /\ applied' = [op |-> "getStatus", out |-> getStatus(messages)]
    /\ UNCHANGED <<messages, mgrVars, call, ret, appVars>>

\* manager.needsSummarization(messages)
NeedsSummarization ==
    /\ applied' = [op |-> "needsSummarization", out |-> mgrNeedsSummarization(messages)]
    /\ UNCHANGED <<messages, mgrVars, call, ret, appVars>>

NextQuery ==
    \/ GetContextStatus
    \/ GetStatus
    \/ NeedsSummarization
    \/ Prepare
    \/ SummarizeResolve
    \/ SummarizeReject

SpecQuery == InitQuery /\ [][NextQuery]_vars

-----------------------------------------------------------------------------
(* SpecRepeat: a caller that holds one list and calls prepare on it again   *)
(* and again, changing the model and clearing the summary in between;      *)
(* applied counts the calls.                                               *)

\* prepare calls of one behaviour
MaxCalls == 3

\* the lists the caller holds: none, a short one, one over the target of a
\* limit of 4096 and under that of 8192, one over every target
RepeatLists ==
    { <<>>,
      << Msg("user", ShortText, 1), Msg("assistant", MediumText, 2) >>,
      StoredChatB,
      << Msg("system", ShortText, 1) >> \o RecentSix }

InitRepeat ==
    /\ messages \in RepeatLists
    /\ \E id \in ModelIds : mgrModelId = id /\ requestedModel = id
    /\ conversationSummary = Null
    /\ call = NoCall
    /\ ret = NoResult
    /\ applied = NoApplication
    /\ AppInit

\* the calls of prepare made so far
CallsMade == IF applied.op = "prepare" THEN applied.n ELSE 0

\* manager.prepare(messages, summarizeFunc) up to the await inside it
PrepareCall ==
    /\ call.state # "awaiting"
    /\ CallsMade < MaxCalls
    /\ prepareBegin(messages)
    /\ applied' = [op |-> "prepare", n |-> CallsMade + 1]
    /\ UNCHANGED <<messages, appVars>>

NextRepeat ==
    \/ PrepareCall
    \/ SetModel
    \/ ClearSummary
    \/ SummarizeResolve
    \/ SummarizeReject

SpecRepeat == InitRepeat /\ [][NextRepeat]_vars

-----------------------------------------------------------------------------
(* Properties of prepare, read off the call record and the returned result *)

CallTokens == estimateMessagesTokens(call.messages)

CallTarget == TargetTokens(LookupLimit(call.modelId))

Min(a, b) == IF a <= b THEN a ELSE b

\* the last n elements of seq, in order
LastN(seq, n) == [i \in 1..Min(n, Len(seq)) |-> seq[Len(seq) - Min(n, Len(seq)) + i]]

C2_SummarizedShape ==
    (/\ call.state = "returned"
     /\ call.outcome = "resolved"
     /\ Len(call.messages) > 6
     /\ GtJS(Num(CallTokens), CallTarget))
        => /\ Len(ret.messages) = 7
           /\ ret.messages[1].role = "system"
           /\ ret.messages[1].content = Str(<<SummaryPrefix>> \o call.summary.segs)
           /\ \A i \in 1..6 :
                 ret.messages[i + 1] = call.messages[Len(call.messages) - 6 + i]
           /\ ret.summarized = TRUE

C2_Witness ==
    /\ call.state = "returned"
    /\ call.outcome = "resolved"
    /\ call.summary = SummaryText
    /\ Len(call.messages) > 6
    /\ GtJS(Num(CallTokens), CallTarget)
    /\ Len(ret.messages) = 7
    /\ ret.messages[2] # ret.messages[3]

\* C3: summarize rejected: prepare returns the last min(6, len) input
\* messages in order, summarized = false, no summary
C3_RejectFallsBack ==
    (call.state = "returned" /\ call.outcome = "rejected")
        => /\ Len(ret.messages) = Min(6, Len(call.messages))
           /\ ret.messages = LastN(call.messages, 6)
           /\ ret.summarized = FALSE
           /\ ret.summaryContext = Null

C3_Witness ==
    /\ call.state = "returned"
    /\ call.outcome = "rejected"
    /\ Len(ret.messages) = 6
    /\ Len(call.messages) > 6

\* C4: at most 6 messages over the target: all of them come back in order,
\* summarized = false, no summary, and summarize is never invoked
C4_ShortListNotSummarized ==
    (/\ call.state # "none"
     /\ Len(call.messages) <= 6
     /\ GtJS(Num(CallTokens), CallTarget))
        => /\ call.state = "returned"
           /\ ~call.summarizeInvoked
           /\ ret.messages = call.messages
           /\ ret.summarized = FALSE
           /\ ret.summaryContext = Null

C4_Witness ==
    /\ call.state = "returned"
    /\ Len(call.messages) = 6
    /\ GtJS(Num(CallTokens), CallTarget)
    /\ ret.messages = call.messages

\* C5: whatever the history and the outcome of summarize, the estimate of
\* the returned list does not exceed the context limit of the model
C5_NeverOverLimit ==
    (call.state = "returned" /\ ~LookupLimit(call.modelId).nan)
        => estimateMessagesTokens(ret.messages) <= LookupLimit(call.modelId).n

\* C6: once loadChat or createNewChat has cleared the summary, lastSummary
\* stays null until a prepare call issued for the new conversation produces
\* one: the result of a call issued before the switch is never stored
C6_OrphanedSummaryNotStored ==
    [][(conversationSummary = Null /\ conversationSummary' # Null)
          => ~call.orphaned]_vars

\* a step in which an awaited summarize resolved and prepare returned
ResolveStep == call.state = "awaiting" /\ call'.state = "returned" /\ call'.outcome = "resolved"

SetModelStep == requestedModel' # requestedModel

\* a step in which prepare is entered
PrepareStep == call.state # "awaiting" /\ call' # call

\* C8: setModel leaves lastSummary, the caller's list and the results already
\* returned as they were, and the queries and prepare calls that follow use
\* the limit of the new id
C8_SetModelOnlyChangesModel ==
    [][ /\ SetModelStep
           => /\ conversationSummary' = conversationSummary
              /\ ret' = ret
              /\ call' = call
              /\ messages' = messages
              /\ getMaxTokens' = LookupLimit(requestedModel')
              /\ getStatus(messages)' = getContextStatus(messages', requestedModel')
              /\ mgrNeedsSummarization(messages)'
                    = needsSummarization(messages', requestedModel')
        /\ PrepareStep
           => /\ call'.modelId = requestedModel
              /\ (call'.state = "returned")
                    = PrepareSync(messages, requestedModel).returned ]_vars

C8_Witness ==
    /\ requestedModel = "Llama-3.2-1B-Instruct-q4f16_1-MLC"
    /\ call.state = "returned"
    /\ call.modelId = "Qwen3-0.6B-q4f16_1-MLC"
    /\ ret.summarized
    /\ conversationSummary # Null
    /\ ~mgrNeedsSummarization(messages)
    /\ needsSummarization(messages, call.modelId)

\* C9: nothing is cached: every prepare on a list of more than 6 messages
\* over the target invokes summarize, also when a summary is already stored,
\* and when that call's summarize resolves lastSummary is that call's summary
C9_NoSummaryCache ==
    [][ /\ (/\ PrepareStep
            /\ Len(messages) > 6
            /\ GtJS(Num(estimateMessagesTokens(messages)),
                    TargetTokens(LookupLimit(mgrModelId))))
           => /\ call'.state = "awaiting"
              /\ call'.summarizeInvoked
              /\ call'.prompt = createSummarizationPrompt(OlderOf(messages))
              /\ ret' = ret
        /\ ResolveStep
           => /\ ret'.summaryContext = SummaryContextOf(call'.summary)
              /\ conversationSummary' = ret'.summaryContext ]_vars

\* the second of two summarizing calls on the same list has returned
C9_Witness ==
    /\ call.state = "returned"
    /\ call.outcome = "resolved"
    /\ call.messages = messages
    /\ call.summaryBefore # Null
    /\ call.summaryBefore # conversationSummary
    /\ conversationSummary = SummaryContextOf(call.summary)

\* C10: a model id that is no entry of the table is handled with the limit
\* 4096 by getMaxTokens, getContextStatus, needsSummarization and prepare
C10_UnknownModelUsesDefault ==
    \A id \in ModelIds \ DOMAIN MODEL_CONTEXT_LIMITS :
        /\ mgrModelId = id
               => /\ getMaxTokens = Num(4096)
                  /\ getStatus(messages).max = Num(4096)
                  /\ getStatus(messages).percentage
                        = Num((2 * 100 * estimateMessagesTokens(messages) + 4096)
                                 \div (2 * 4096))
                  /\ mgrNeedsSummarization(messages)
                        = (10 * estimateMessagesTokens(messages) > 7 * 4096)
        /\ (call.state # "none" /\ call.modelId = id)
               => (call.state = "returned" /\ call.outcome = "none")
                     = (CallTokens <= 2867 \/ Len(call.messages) <= 6)

-----------------------------------------------------------------------------
(* Properties of the estimation functions, read off the applied record *)

\* the estimates of the messages of msgs added up from the last to the first
RECURSIVE SumTokens(_)
SumTokens(msgs) ==
    IF msgs = <<>> THEN 0
    ELSE SumTokens(SubSeq(msgs, 1, Len(msgs) - 1))
            + estimateTokens(msgs[Len(msgs)].content) + 4

\* p is x rounded to the nearest integer, halves up, for x = num / den
IsRounded(p, num, den) == 2 * p * den - den <= 2 * num /\ 2 * num < 2 * p * den + den

\* the limit documented for a model id: its entry of the table, else 4096
DocumentedLimit(id) ==
    IF id \in DOMAIN MODEL_CONTEXT_LIMITS THEN MODEL_CONTEXT_LIMITS[id] ELSE DEFAULT_LIMIT

\* C11: for every list and model id the status has max = the limit of the
\* model, current = the estimate of the list (0 for the empty list),
\* percentage = round(100 x current / max), needsSummarization =
\* percentage > 70 and isNearLimit = percentage > 90, so that isNearLimit
\* implies needsSummarization
C11_StatusOfEveryModel ==
    applied.op = "getContextStatus"
        => LET st == applied.out
               msgs == applied.in.messages
               limit == DocumentedLimit(applied.in.modelId)
           IN  /\ st.max = Num(limit)
               /\ st.current = SumTokens(msgs)
               /\ msgs = <<>> => st.current = 0
               /\ ~st.percentage.nan
               /\ IsRounded(st.percentage.n, 100 * st.current, limit)
               /\ st.needsSummarization = (st.percentage.n > 70)
               /\ st.isNearLimit = (st.percentage.n > 90)
               /\ st.isNearLimit => st.needsSummarization

\* what holds of the status for every model id: the fields are related as
\* C11 says whenever the lookup of the limit gave a number, the limit of C11;
\* when it gave none, percentage is NaN and both flags are false
C11_StatusFields ==
    applied.op = "getContextStatus"
        => LET st == applied.out
               msgs == applied.in.messages
           IN  /\ st.max = LookupLimit(applied.in.modelId)
               /\ ~st.max.nan => st.max.n = DocumentedLimit(applied.in.modelId)
               /\ st.current = SumTokens(msgs)
               /\ msgs = <<>> => st.current = 0
               /\ st.percentage.nan = st.max.nan
               /\ ~st.max.nan => IsRounded(st.percentage.n, 100 * st.current, st.max.n)
               /\ st.needsSummarization = (~st.percentage.nan /\ st.percentage.n > 70)
               /\ st.isNearLimit = (~st.percentage.nan /\ st.percentage.n > 90)
               /\ st.isNearLimit => st.needsSummarization

C13_MessagesTokensSum ==
    applied.op = "estimateMessagesTokens"
        => LET msgs == applied.in
               n == applied.out
           IN  /\ n = SumTokens(msgs)
               /\ msgs = <<>> => n = 0
               /\ \A k \in 0..Len(msgs) :
                     n = estimateMessagesTokens(SubSeq(msgs, 1, k))
                            + estimateMessagesTokens(SubSeq(msgs, k + 1, Len(msgs)))
               /\ \A p \in Permutations(1..Len(msgs)) :
                     estimateMessagesTokens([i \in 1..Len(msgs) |-> msgs[p[i]]]) = n

C13_Witness ==
    /\ applied.op = "estimateMessagesTokens"
    /\ Len(applied.in) = 3
    /\ applied.in[1].content = Null
    /\ applied.in[2].content = TextOfLength(8)
    /\ applied.in[3].content = LongText
    /\ applied.out = 2873

-----------------------------------------------------------------------------
(* Properties of the summarization prompt *)

\* the label of a message's own role
OwnRoleLabel(m) ==
    CASE m.role = "user"      -> Seg("User", 4)
      [] m.role = "assistant" -> Seg("Assistant", 9)
      [] m.role = "system"    -> Seg("System", 6)

\* the lines "<label>: <content>" of msgs in order, a blank line between two
RECURSIVE LinesOf(_, _, _)
LinesOf(Label(_), msgs, i) ==
    IF i > Len(msgs) THEN <<>>
    ELSE <<Label(msgs[i]), Seg(": ", 2)>> \o msgs[i].content.segs
            \o (IF i = Len(msgs) THEN <<>> ELSE <<Seg("blank line", 2)>>)
            \o LinesOf(Label, msgs, i + 1)

\* the messages before the last 6 of the list prepareMessagesForContext was handed
AppliedOlder == SubSeq(applied.in.messages, 1, Len(applied.in.messages) - 6)

\* C14: the prompt handed to summarize is the template around one line
\* "<Role>: <content>" for each message before the last 6, in their order,
\* each labelled with its own role, and nothing of the last 6
C14_PromptLabelsOwnRole ==
    (applied.op = "prepareMessagesForContext" /\ ~applied.out.returned)
        => applied.out.prompt
              = Str(<<PromptHead>> \o LinesOf(OwnRoleLabel, AppliedOlder, 1) \o <<PromptTail>>)

\* what the code does instead: every message that is not a user's is
\* labelled Assistant; the older messages are there once each, in order
C14_PromptLabelsUserOrAssistant ==
    (applied.op = "prepareMessagesForContext")
        => /\ ~applied.out.returned
           /\ applied.out.prompt
                 = Str(<<PromptHead>> \o LinesOf(RoleLabel, AppliedOlder, 1) \o <<PromptTail>>)
           /\ \A i \in 1..Len(applied.out.prompt.segs) :
                 applied.out.prompt.segs[i] # LongText.segs[1]

-----------------------------------------------------------------------------
(* Frame of the queries and of prepare *)

\* a step in which one of the status queries was called
QueryStep == applied' # applied

\* a step of prepare: the call, or its return after summarize settled
PrepareCallStep == call' # call

\* C15: the status queries change neither the manager's model id nor
\* lastSummary nor the list, and every step of prepare leaves the caller's
\* list and the manager's model id as they were
C15_QueriesAndPrepareKeepInput ==
    [][ /\ QueryStep => /\ messages' = messages
                        /\ mgrModelId' = mgrModelId
                        /\ conversationSummary' = conversationSummary
                        /\ call' = call
        /\ PrepareCallStep => /\ messages' = messages
                              /\ mgrModelId' = mgrModelId
                              /\ call'.messages = messages ]_vars

\* prepare ran through its summarizing branch and a query followed
C15_Witness ==
    /\ call.state = "returned"
    /\ call.outcome = "resolved"
    /\ Len(messages) = 7
    /\ messages[1].role = "system"
    /\ applied.op = "getStatus"
    /\ conversationSummary # Null

-----------------------------------------------------------------------------
(* Properties of exportConversation *)

\* the snapshot has one entry { role, content, timestamp } for each message
\* of msgs, in order
EntriesMatch(snapshot, msgs) ==
    /\ "messages" \in DOMAIN snapshot
    /\ snapshot["messages"].kind = "array"
    /\ Len(snapshot["messages"].items) = Len(msgs)
    /\ \A i \in 1..Len(msgs) :
          LET e == snapshot["messages"].items[i]
          IN  /\ DOMAIN e = { "role", "content", "timestamp" }
              /\ e["role"] = RoleText(msgs[i].role)
              /\ e["content"] = msgs[i].content
              /\ e["timestamp"] = IF msgs[i].timestamp = 0 THEN Null
                                  ELSE NumberValue(msgs[i].timestamp)

\* C16 as claimed: messageCount is the number of messages, there is one
\* entry per message in order, and every key of metadata is in the snapshot
\* with its supplied value, next to exportedAt
C16_ExportKeepsAllMetadata ==
    applied.op = "exportConversation"
        => LET msgs == applied.in.messages
               metadata == applied.in.metadata
               snapshot == applied.out
           IN  /\ "messageCount" \in DOMAIN snapshot
               /\ snapshot["messageCount"] = NumberValue(Len(msgs))
               /\ EntriesMatch(snapshot, msgs)
               /\ "exportedAt" \in DOMAIN snapshot
               /\ \A k \in DOMAIN metadata :
                     k \in DOMAIN snapshot /\ snapshot[k] = metadata[k]

\* C16 as the code has it: one entry per message in order; a key of metadata
\* other than messages is in the snapshot with its supplied value when that
\* value is defined and absent when it is undefined, also when the key is
\* messageCount or exportedAt; messageCount is the number of messages and
\* exportedAt the time of the export when metadata has no such key
C16_ExportMetadataPrecedence ==
    applied.op = "exportConversation"
        => LET msgs == applied.in.messages
               metadata == applied.in.metadata
               snapshot == applied.out
           IN  /\ EntriesMatch(snapshot, msgs)
               /\ \A k \in DOMAIN metadata \ { "messages" } :
                     IF metadata[k].kind = "undefined" THEN k \notin DOMAIN snapshot
                     ELSE k \in DOMAIN snapshot /\ snapshot[k] = metadata[k]
               /\ "messageCount" \notin DOMAIN metadata
                     => /\ "messageCount" \in DOMAIN snapshot
                        /\ snapshot["messageCount"] = NumberValue(Len(msgs))
               /\ "exportedAt" \notin DOMAIN metadata
                     => /\ "exportedAt" \in DOMAIN snapshot
                        /\ snapshot["exportedAt"] = IsoNow
               /\ DOMAIN snapshot \subseteq
                     { "exportedAt", "messageCount", "messages" } \cup DOMAIN metadata

\* two messages exported with a title and a messageCount of the caller's
C16_Witness ==
    /\ applied.op = "exportConversation"
    /\ Len(applied.in.messages) = 2
    /\ DOMAIN applied.in.metadata = { "chatTitle", "messageCount" }
    /\ applied.in.metadata["messageCount"] = Str(<<Seg("X", 1)>>)
    /\ applied.in.metadata["chatTitle"] = Str(<<Seg("X", 1)>>)
    /\ applied.out["messageCount"] = Str(<<Seg("X", 1)>>)
    /\ applied.out["chatTitle"] = Str(<<Seg("X", 1)>>)
    /\ applied.in.messages[2].timestamp = 0
    /\ applied.out["messages"].items[2]["timestamp"] = Null

-----------------------------------------------------------------------------
(* A summarize that resolves without a usable text *)

\* C20: when summarize resolved with an empty text, prepare returns as after
\* a failure: the last 6 messages, summarized = false, no summary, and
\* lastSummary as it was before the call
C20_EmptySummaryFallsBack ==
    (call.state = "returned" /\ call.outcome = "resolved" /\ Falsy(call.summary))
        => /\ ret.messages = LastN(call.messages, 6)
           /\ ret.summarized = FALSE
           /\ ret.summaryContext = Null
           /\ conversationSummary = call.summaryBefore

-----------------------------------------------------------------------------
(* Properties of the application *)

\* a step in which a sendMessage invocation passes its guards
SendPassesGuard == send'.sent > send.sent

\* C17: a sendMessage invocation passes the guards only when no other is in
\* flight, an invocation in flight keeps isGenerating set, and a prepare call
\* waiting for summarize belongs to the one invocation in flight
C17_OneSendInFlight ==
    [][ /\ SendPassesGuard => (send.pc = "idle" /\ ~isGenerating)
        /\ send'.pc # "idle" => isGenerating'
        /\ call'.state = "awaiting" => send'.pc = "awaitPrepare" ]_vars

\* the second invocation waits for its summarize call
C17_Witness ==
    /\ send.sent = 2
    /\ send.pc = "awaitPrepare"
    /\ call.state = "awaiting"
    /\ isGenerating

\* a step of a switchModel invocation
SwitchStep == switches' # switches

\* C18: no step of switchModel changes the message list, currentChatId or
\* lastSummary, and when it sets currentModelId the manager's model id is
\* set to the same id
C18_SwitchModelKeepsConversation ==
    [][SwitchStep => /\ messages' = messages
                     /\ currentChatId' = currentChatId
                     /\ conversationSummary' = conversationSummary
                     /\ mgrModelId' = currentModelId']_vars

\* the model was switched, and loaded, in a conversation that has a summary
C18_Witness ==
    /\ currentModelId = "Llama-3.2-1B-Instruct-q4f16_1-MLC"
    /\ mgrModelId = "Llama-3.2-1B-Instruct-q4f16_1-MLC"
    /\ engine = "Llama-3.2-1B-Instruct-q4f16_1-MLC"
    /\ switches = {}
    /\ conversationSummary # Null
    /\ Len(messages) > 6

\* summarize has settled for the prepare call of the invocation in flight
SummarizeSettled ==
    send.pc = "awaitPrepare" /\ call.outcome \in { "resolved", "rejected" }

\* the streaming completion has been requested with the list prepare returned
StreamRequested == send.pc = "awaitStream"

\* C19, the progress: once summarize has settled, resolved or rejected,
\* prepare returns and sendMessage goes on to request the streaming completion
C19_SendNotBlocked == SummarizeSettled ~> StreamRequested

\* the list holds a user message with the text
Carries(list, text) ==
    \E i \in 1..Len(list) : list[i].role = "user" /\ list[i].content = text

\* a step in which prepare has returned after summarize settled and
\* sendMessage requests the streaming completion
StreamRequestStep ==
    /\ send.pc = "awaitPrepare"
    /\ call.outcome \in { "resolved", "rejected" }
    /\ send'.pc = "awaitStream"

\* C19, the request: the streaming completion that follows a settled
\* summarize is requested with a list that holds the message the user sent
C19_StreamCarriesUserMessage ==
    [][StreamRequestStep => Carries(send'.contextMessages, send.content)]_vars

-----------------------------------------------------------------------------
(* Repeated calls of prepare *)

\* the list is within the target of the manager's model, as prepare tests it
UnderThreshold ==
    LeqJS(Num(estimateMessagesTokens(messages)), TargetTokens(LookupLimit(mgrModelId)))

\* a step in which the caller calls prepare
PrepareCallMade == CallsMade' = CallsMade + 1

\* the call before this one was made with the same list and model and has returned
SameAsLastCall ==
    /\ CallsMade >= 1
    /\ call.state = "returned"
    /\ call.messages = messages
    /\ call.modelId = mgrModelId

-----------------------------------------------------------------------------
(* The rate limiter *)

\* a step in which sendMessage called rateLimiter.canSend()
CanSendStep == Attempts' = Attempts + 1

\* C22: a canSend call that returns true is at least minInterval after every
\* earlier call that returned true, by the clock each read; a call that
\* returns false leaves lastMessageTime as it was, and sendMessage then
\* appends no message, starts no addMessage and does not set isGenerating
C22_RateLimited ==
    [][CanSendStep
          => /\ applied'.out
                => /\ \A i \in 1..Len(Accepted) : applied'.at - Accepted[i] >= 1000
                   /\ lastMessageTime' = applied'.at
             /\ ~applied'.out
                => /\ lastMessageTime' = lastMessageTime
                   /\ messages' = messages
                   /\ store' = store
                   /\ send' = send
                   /\ isGenerating' = isGenerating]_vars

\* two sends a second apart were accepted and a third, 999 ms after the
\* second, was ignored
C22_Witness ==
    /\ applied.op = "canSend"
    /\ ~applied.out
    /\ Len(applied.trues) = 2
    /\ applied.trues[2] - applied.trues[1] = 1000
    /\ applied.at - applied.trues[2] = 999
    /\ send.pc = "idle"
    /\ ~isGenerating

-----------------------------------------------------------------------------
(* The three threshold tests *)

\* prepare went past its return of the unchanged list
LeftSendAsIs == ~(applied.prepared.returned
                    /\ applied.prepared.result = Result(applied.in.messages, FALSE, Null))

-----------------------------------------------------------------------------
(* What prepare returns of its input *)

\* the returned list without the summary message a summarized result begins with
ReturnedBody == IF ret.summarized THEN Tail(ret.messages) ELSE ret.messages

\* C24: whichever way prepare returned, the returned list without its leading
\* summary message is a suffix of the input list, in the input's order, and
\* the last message returned for a non-empty input is the input's last
C24_ReturnedIsSuffix ==
    call.state = "returned"
        => /\ Len(ReturnedBody) <= Len(call.messages)
           /\ ReturnedBody = LastN(call.messages, Len(ReturnedBody))
           /\ ret.summarized => ret.messages[1].role = "system"
           /\ call.messages # <<>>
                 => /\ ret.messages # <<>>
                    /\ ret.messages[Len(ret.messages)] = call.messages[Len(call.messages)]

\* a summarized result of a list of seven: the summary and the last six
C24_Witness ==
    /\ call.state = "returned"
    /\ ret.summarized
    /\ Len(call.messages) = 7
    /\ Len(ReturnedBody) = 6
    /\ ReturnedBody[1] = call.messages[2]
    /\ ReturnedBody[6] = call.messages[7]
    /\ call.messages[6] # call.messages[7]

-----------------------------------------------------------------------------
(* The life of lastSummary *)

\* a step in which a prepare call returns
PrepareReturnStep == call'.state = "returned" /\ call' # call

\* C25: lastSummary is null when the manager is created; a prepare call that
\* returns summarized = true sets it to that call's summary, a prepare call
\* that returns summarized = false leaves it as it was, and every other
\* change of it is clearSummary setting it to null
C25_LastSummaryChanges ==
    /\ conversationSummary = Null
    /\ [][ /\ PrepareReturnStep
              => IF ret'.summarized
                 THEN conversationSummary' = ret'.summaryContext
                 ELSE conversationSummary' = conversationSummary
           /\ (conversationSummary' # conversationSummary /\ ~PrepareReturnStep)
              => /\ conversationSummary' = Null
                 /\ call' = call
                 /\ ret' = ret
                 /\ mgrModelId' = mgrModelId ]_vars

\* summarize failed in a call made while a summary was stored: it is still there
C25_Witness ==
    /\ call.state = "returned"
    /\ call.outcome = "rejected"
    /\ ~ret.summarized
    /\ call.summaryBefore # Null
    /\ conversationSummary = call.summaryBefore

-----------------------------------------------------------------------------
(* Where the assistant's reply goes *)

\* a step in which sendMessage pushes the assistant placeholder
PlaceholderStep == send.pc = "awaitStream" /\ send'.pc = "streaming"

\* a step in which sendMessage calls addMessage for the assistant's reply
AssistantSaveStep == send.role = "user" /\ send'.role = "assistant" /\ send'.pc = "setDoc"

\* C26: the placeholder of the reply is appended to the list that holds the
\* user message of the invocation, and the reply is persisted to the chat id
\* the user message of the invocation was persisted to
C26_ReplyInSameChat ==
    [][ /\ PlaceholderStep => Carries(messages, send.content)
        /\ AssistantSaveStep => send'.chatId = send.chatId ]_vars

-----------------------------------------------------------------------------
(* The end of a sendMessage invocation *)

\* the invocation has run to its end or has ended by an exception
SendEnded == send.pc \in { "idle", "aborted" }

\* C27: when a sendMessage invocation has ended, however its awaited calls
\* settled, isGenerating is false again (and with it the input and the send
\* button are enabled)
C27_EndedSendReenablesInput == SendEnded => ~isGenerating

-----------------------------------------------------------------------------
(* The engine and the selected model *)

\* no initEngine call (of init, of sendMessage, of switchModel) and no
\* switchModel call is in progress
NoEngineCallInProgress ==
    /\ initPc # "engine"
    /\ switches = {}
    /\ send.pc # "createEngine"

\* C28: whenever no initEngine or switchModel call is in progress and an
\* engine is loaded, it is the engine created for currentModelId, and
\* currentModelId is the context manager's model id
C28_EngineMatchesModel ==
    (NoEngineCallInProgress /\ engine # NoEngine)
        => /\ engine = currentModelId
           /\ mgrModelId = currentModelId

-----------------------------------------------------------------------------
(* Overlapping conversation switches *)

\* a step in which the last pending loadChat or createNewChat call completes
LastSwitchCompletes == loads # {} /\ loads' = {}

\* C29: when the last of the overlapping loadChat and createNewChat calls has
\* completed, the in-memory list is the message list of currentChatId (empty
\* for a chat just created) and the one active subscription is that of
\* currentChatId
C29_SwitchesEndConsistent ==
    [][LastSwitchCompletes
          => /\ messages' = LocalView(currentChatId)'
             /\ unsubscribeMessages' = [chat |-> currentChatId', active |-> TRUE]]_vars

-----------------------------------------------------------------------------
(* The message count of a chat *)

\* every addMessage call that was made has returned
AllAddsCompleted == \A i \in AddCalls : Adds[i].pc \in { "idle", "done" }

\* C30: when the addMessage calls made on a chat have all completed, also
\* calls that overlapped, the chat's messageCount is the number of messages
\* added to it since it was created with messageCount 0
C30_MessageCountIsNumberAdded ==
    AllAddsCompleted
        => \A chat \in ExistingChats :
              store[chat].messageCount = Len(store[chat].messages)

====
